---- MODULE Spec2Model ----
(***************************************************************************)
(* Model of pth_matrix_vector.c (parallel y = A * x with POSIX threads)    *)
(* and of Quinn's block-distribution macros of quinn.h.                    *)
(*                                                                         *)
(* Two specifications share the module:                                    *)
(*   Spec       one run of main() together with its worker threads;        *)
(*   BlockSpec  the macros of quinn.h applied to bounded (id, p, n).       *)
(***************************************************************************)
EXTENDS Integers, Sequences, FiniteSets, TLC

(***************************************************************************)
(* Bounds of the model.                                                    *)
(***************************************************************************)
MaxM == 2          \* rows of a readable matrix file
MaxN == 3          \* columns of a readable matrix file
MaxP == 3          \* largest worker count given on the command line
MantBits == 3      \* mantissa width of the modelled floating point
MaxQP == 6         \* BlockSpec: largest p
MaxQN == 8         \* BlockSpec: largest n

VARIABLES
    pc,            \* main's position
    exitCode,      \* NoExit while the process runs, then its exit status
    argc,          \* main's argc
    thread_count,  \* global thread_count
    A, x, y,       \* global buffers, functions over 0..len-1 (<<>> = NULL)
    m, n,          \* globals m, n
    m_x, n_x,      \* main's locals m_x, n_x
    thread,        \* main's loop counter
    handles,       \* thread_handles[]: "uninit", "valid" or "joined" per slot
    heap,          \* the live malloc'ed buffers
    opened,        \* the files fopen() has been called on
    outFile,       \* the output file on disk
    errStream,     \* the lines written to stderr, in order
    clock,         \* wall clock: one tick per step of the process
    start_total, end_total, start_work, end_work,
    wpc,           \* per thread: position in Pth_mat_vect ("none" = no thread)
    wfirst, wlast, \* per thread: local_first_row, local_last_row
    my_rank,       \* per thread: the rank it was created with
    wi, wj,        \* per thread: i, j
    writers,       \* per index of y: the threads that have stored to it
    stores,        \* per index of y: the number of stores made to it
    qp, qn, qid,   \* BlockSpec: p, n and the next id to evaluate
    qlow, qhigh,   \* BlockSpec: the evaluated BLOCK_LOW / BLOCK_HIGH per id
    qsize,         \* BlockSpec: the evaluated BLOCK_SIZE per id
    qj, qowner     \* BlockSpec: the next index j, the evaluated BLOCK_OWNER per j

mainVars == <<pc, exitCode, argc, thread_count, A, x, y, m, n, m_x, n_x, thread,
              handles, heap, opened, outFile, errStream, clock,
              start_total, end_total, start_work, end_work>>
workerVars == <<wpc, my_rank, wfirst, wlast, wi, wj, writers, stores>>
blockVars == <<qp, qn, qid, qlow, qhigh, qsize, qj, qowner>>
vars == <<mainVars, workerVars, blockVars>>

Ranks == 0 .. (MaxP - 1)
NoExit == -1
Indeterminate == -999    \* content of malloc'ed memory that was never stored to
NoTime == -1

(***************************************************************************)
(* quinn.h.  C's / on non-negative operands is \div.  In Pth_mat_vect id   *)
(* is a long, so id * n is a 64-bit product of two values below 2^31 and   *)
(* cannot overflow.                                                        *)
(***************************************************************************)
\* the division made before the multiplication
BLOCK_LOW_DivFirst(id, p, n0) == id * (n0 \div p)

\* the quotient rounded up instead of down
BLOCK_LOW_RoundedUp(id, p, n0) == (id * n0 + p - 1) \div p

BLOCK_LOW(id, p, n0) == (id * n0) \div p

\* the - 1 left out
BLOCK_HIGH_OnePast(id, p, n0) == BLOCK_LOW(id + 1, p, n0)

BLOCK_HIGH(id, p, n0) == BLOCK_LOW(id + 1, p, n0) - 1

\* the + 1 left out
BLOCK_SIZE_NoPlusOne(id, p, n0) == BLOCK_HIGH(id, p, n0) - BLOCK_LOW(id, p, n0)

BLOCK_SIZE(id, p, n0) == BLOCK_HIGH(id, p, n0) - BLOCK_LOW(id, p, n0) + 1

\* the plain quotient p * j / n
BLOCK_OWNER_Plain(j, p, n0) == (p * j) \div n0

BLOCK_OWNER(j, p, n0) == (p * (j + 1) - 1) \div n0

(***************************************************************************)
(* double arithmetic: the exact result rounded to the nearest value with   *)
(* a MantBits-bit mantissa, ties to even.                                  *)
(***************************************************************************)
Abs(v) == IF v < 0 THEN -v ELSE v

RECURSIVE Pow2(_)
Pow2(e) == IF e = 0 THEN 1 ELSE 2 * Pow2(e - 1)

RECURSIVE Ulp(_, _)
Ulp(a, u) == IF a \div u < Pow2(MantBits) THEN u ELSE Ulp(a, 2 * u)

RoundDouble(v) ==
    LET a == Abs(v)
        u == Ulp(a, 1)
        q == a \div u
        r == a % u
        up == IF 2 * r < u THEN q
              ELSE IF 2 * r > u THEN q + 1
              ELSE IF q % 2 = 0 THEN q ELSE q + 1
    IN  (IF v < 0 THEN -1 ELSE 1) * up * u

FMul(a, b) == RoundDouble(a * b)

FAdd(a, b) == RoundDouble(a + b)


(***************************************************************************)
(* The file system.  A matrix file holds two ints and rows*cols doubles;   *)
(* a file may be missing, end inside its header, or end inside its data.   *)
(***************************************************************************)
Seeds == {0, 1}

DataAt(seed, k) == ((5 * seed + 3 * k + 6) % 7) + 1

FileData(seed, len) == [k \in 0 .. (len - 1) |-> DataAt(seed, k)]

MissingFile == [exists |-> FALSE, hdr |-> 0, rows |-> 0, cols |-> 0, avail |-> 0, seed |-> 0]

MatrixFiles(RowSet, ColSet) ==
    {MissingFile}
    \cup {[exists |-> TRUE, hdr |-> 1, rows |-> 1, cols |-> 0, avail |-> 0, seed |-> 0]}
    \cup {[exists |-> TRUE, hdr |-> 2, rows |-> 0, cols |-> 1, avail |-> 0, seed |-> 0]}
    \cup {[exists |-> TRUE, hdr |-> 2, rows |-> r, cols |-> c, avail |-> r * c - 1, seed |-> 0] :
             r \in RowSet, c \in ColSet}
    \cup {[exists |-> TRUE, hdr |-> 2, rows |-> r, cols |-> c, avail |-> r * c, seed |-> s] :
             r \in RowSet, c \in ColSet, s \in Seeds}

\* Read_matrix returning from a short fread() without free(A)
Read_matrix_NoFree(f, mallocOk) ==
    LET fail == [ret |-> -1, buf |-> <<>>, rows |-> 0, cols |-> 0, live |-> {}]
    IN  IF ~f.exists THEN fail
        ELSE IF f.hdr < 2 THEN fail
        ELSE IF f.rows <= 0 \/ f.cols <= 0 THEN fail
        ELSE IF ~mallocOk THEN fail
        ELSE IF f.avail # f.rows * f.cols THEN [fail EXCEPT !.live = {"buf"}]
        ELSE [ret |-> 0, buf |-> FileData(f.seed, f.rows * f.cols),
              rows |-> f.rows, cols |-> f.cols, live |-> {"buf"}]

\* Read_matrix: ret is its return value; buf, rows, cols are what it stores
\* through A_p, m_p, n_p; live is what it leaves allocated.
Read_matrix(f, mallocOk) ==
    LET fail == [ret |-> -1, buf |-> <<>>, rows |-> 0, cols |-> 0, live |-> {}]
    IN  IF ~f.exists THEN fail
        ELSE IF f.hdr < 2 THEN fail
        ELSE IF f.rows <= 0 \/ f.cols <= 0 THEN fail
        ELSE IF ~mallocOk THEN fail
        ELSE IF f.avail # f.rows * f.cols THEN fail
        ELSE [ret |-> 0, buf |-> FileData(f.seed, f.rows * f.cols),
              rows |-> f.rows, cols |-> f.cols, live |-> {"buf"}]

\* What a call r of Read_matrix adds to the heap: the buffer handed to the
\* caller under the caller's name for it, or a buffer it kept and lost.
Held(r, name) ==
    IF "buf" \notin r.live THEN {}
    ELSE IF r.ret = 0 THEN {name}
    ELSE {"lost_by_Read_matrix"}

\* Write_vector: the file it leaves on disk for each point at which the
\* writing can stop.  data is what fwrite() reads from y.
NoFile == [state |-> "absent", rows |-> 0, cols |-> 0, data |-> <<>>]

Write_vector(outcome, data, rows) ==
    IF outcome = "fopen_fails" THEN [ret |-> -1, file |-> NoFile]
    ELSE IF outcome = "header_fails"
        THEN [ret |-> -1, file |-> [state |-> "partial", rows |-> 0, cols |-> 0, data |-> <<>>]]
    ELSE IF outcome = "data_fails"
        THEN [ret |-> -1, file |-> [state |-> "partial", rows |-> rows, cols |-> 1, data |-> <<>>]]
    ELSE [ret |-> 0, file |-> [state |-> "complete", rows |-> rows, cols |-> 1, data |-> data]]

WriteOutcomes == {"fopen_fails", "header_fails", "data_fails", "ok"}

\* What fwrite() can read from a buffer: a stored element as it is, an
\* element never stored to as any value.
GarbageVals == {0, 5}

ReadsOf(buf) ==
    {d \in [DOMAIN buf -> GarbageVals \cup {buf[k] : k \in DOMAIN buf}] :
        \A k \in DOMAIN buf : IF buf[k] = Indeterminate THEN d[k] \in GarbageVals
                                                          ELSE d[k] = buf[k]}

Line(tag, args) == [tag |-> tag, args |-> args]

(***************************************************************************)
(* Initial state: the process has started, main has not run a statement.   *)
(***************************************************************************)
NoWorker == [r \in Ranks |-> "none"]
Zeros == [r \in Ranks |-> 0]

MainInit ==
    /\ pc = "start"
    /\ exitCode = NoExit
    /\ argc \in {4, 5}
    /\ thread_count = 0
    /\ A = <<>> /\ x = <<>> /\ y = <<>>
    /\ m = 0 /\ n = 0 /\ m_x = 0 /\ n_x = 0
    /\ thread = 0
    /\ handles = <<>>
    /\ heap = {}
    /\ opened = {}
    /\ outFile = NoFile
    /\ errStream = <<>>
    /\ clock = 0
    /\ start_total = NoTime /\ end_total = NoTime
    /\ start_work = NoTime /\ end_work = NoTime

WorkerInit ==
    /\ wpc = NoWorker
    /\ my_rank = Zeros
    /\ wfirst = Zeros /\ wlast = Zeros /\ wi = Zeros /\ wj = Zeros
    /\ writers = <<>>
    /\ stores = <<>>

BlockIdle ==
    /\ qp = 1 /\ qn = 0 /\ qid = 0
    /\ qlow = <<>> /\ qhigh = <<>> /\ qsize = <<>>
    /\ qj = 0 /\ qowner = <<>>

Init == MainInit /\ WorkerInit /\ BlockIdle

(***************************************************************************)
(* main().  Every action is one stretch of main between two points where   *)
(* the environment or another thread can make a difference.                *)
(***************************************************************************)
Running == exitCode = NoExit

\* exit(code) / return code from main: the process ends, its threads with it.
Exit(code) == pc' = "exit" /\ exitCode' = code

Tick == clock' = clock + 1

\* Usage printing its first line only
UsageOneLine == <<Line("usage", <<>>)>>

UsageLines == <<Line("usage", <<>>), Line("usage_purpose", <<>>),
                Line("usage_output", <<>>), Line("usage_example", <<>>)>>

\* lines 48-55
CheckArgc ==
    /\ Running /\ pc = "start"
    /\ start_total' = clock
    /\ Tick
    /\ IF argc # 5
          THEN /\ errStream' = errStream \o UsageLines
               /\ Exit(1)
          ELSE /\ pc' = "get_threads"
               /\ UNCHANGED <<errStream, exitCode>>
    /\ UNCHANGED <<argc, thread_count, A, x, y, m, n, m_x, n_x, thread, handles, heap,
                   opened, outFile, end_total, start_work, end_work>>
    /\ UNCHANGED <<workerVars, blockVars>>

\* GetThreadCount with the test written thread_count < 0
GetThreadCountAcceptsZero ==
    /\ Running /\ pc = "get_threads"
    /\ \E v \in -1 .. MaxP :
          /\ thread_count' = v
          /\ IF v < 0
                THEN /\ errStream' = Append(errStream, Line("err_threads", <<>>))
                     /\ Exit(1)
                ELSE /\ pc' = "read_A"
                     /\ UNCHANGED <<errStream, exitCode>>
    /\ Tick
    /\ UNCHANGED <<argc, A, x, y, m, n, m_x, n_x, thread, handles, heap,
                   opened, outFile, start_total, end_total, start_work, end_work>>
    /\ UNCHANGED <<workerVars, blockVars>>

\* lines 57-62; v is atoi(argv[4])
GetThreadCount ==
    /\ Running /\ pc = "get_threads"
    /\ \E v \in -1 .. MaxP :
          /\ thread_count' = v
          /\ IF v <= 0
                THEN /\ errStream' = Append(errStream, Line("err_threads", <<>>))
                     /\ Exit(1)
                ELSE /\ pc' = "read_A"
                     /\ UNCHANGED <<errStream, exitCode>>
    /\ Tick
    /\ UNCHANGED <<argc, A, x, y, m, n, m_x, n_x, thread, handles, heap,
                   opened, outFile, start_total, end_total, start_work, end_work>>
    /\ UNCHANGED <<workerVars, blockVars>>

\* lines 64-68
ReadA ==
    /\ Running /\ pc = "read_A"
    /\ \E f \in MatrixFiles(1 .. MaxM, 1 .. MaxN), mallocOk \in BOOLEAN :
          LET r == Read_matrix(f, mallocOk) IN
          /\ opened' = opened \cup {"file_A"}
          /\ heap' = heap \cup Held(r, "A")
          /\ IF r.ret # 0
                THEN /\ errStream' = Append(errStream, Line("err_read_A", <<>>))
                     /\ Exit(1)
                     /\ UNCHANGED <<A, m, n>>
                ELSE /\ A' = r.buf /\ m' = r.rows /\ n' = r.cols
                     /\ pc' = "read_x"
                     /\ UNCHANGED <<errStream, exitCode>>
    /\ Tick
    /\ UNCHANGED <<argc, thread_count, x, y, m_x, n_x, thread, handles,
                   outFile, start_total, end_total, start_work, end_work>>
    /\ UNCHANGED <<workerVars, blockVars>>

\* lines 70-75
ReadX ==
    /\ Running /\ pc = "read_x"
    /\ \E f \in MatrixFiles(1 .. MaxN, 1 .. 2), mallocOk \in BOOLEAN :
          LET r == Read_matrix(f, mallocOk) IN
          /\ opened' = opened \cup {"file_x"}
          /\ IF r.ret # 0
                THEN /\ errStream' = Append(errStream, Line("err_read_x", <<>>))
                     /\ heap' = (heap \ {"A"}) \cup Held(r, "x")
                     /\ Exit(1)
                     /\ UNCHANGED <<x, m_x, n_x>>
                ELSE /\ x' = r.buf /\ m_x' = r.rows /\ n_x' = r.cols
                     /\ heap' = heap \cup Held(r, "x")
                     /\ pc' = "check_column"
                     /\ UNCHANGED <<errStream, exitCode>>
    /\ Tick
    /\ UNCHANGED <<argc, thread_count, A, y, m, n, thread, handles,
                   outFile, start_total, end_total, start_work, end_work>>
    /\ UNCHANGED <<workerVars, blockVars>>

\* lines 77-83
CheckColumn ==
    /\ Running /\ pc = "check_column"
    /\ IF n_x # 1
          THEN /\ errStream' = Append(errStream, Line("err_column", <<n_x>>))
               /\ heap' = heap \ {"A", "x"}
               /\ Exit(1)
          ELSE /\ pc' = "check_compat"
               /\ UNCHANGED <<errStream, heap, exitCode>>
    /\ Tick
    /\ UNCHANGED <<argc, thread_count, A, x, y, m, n, m_x, n_x, thread, handles,
                   opened, outFile, start_total, end_total, start_work, end_work>>
    /\ UNCHANGED <<workerVars, blockVars>>

\* CheckCompat without its test
CheckCompatSkipped ==
    /\ Running /\ pc = "check_compat"
    /\ pc' = "alloc_y"
    /\ Tick
    /\ UNCHANGED <<exitCode, argc, thread_count, A, x, y, m, n, m_x, n_x, thread, handles,
                   heap, opened, outFile, errStream,
                   start_total, end_total, start_work, end_work>>
    /\ UNCHANGED <<workerVars, blockVars>>

\* lines 85-92
CheckCompat ==
    /\ Running /\ pc = "check_compat"
    /\ IF n # m_x
          THEN /\ errStream' = errStream \o <<Line("err_incompatible", <<>>),
                                              Line("err_dims", <<m, n, m_x>>)>>
               /\ heap' = heap \ {"A", "x"}
               /\ Exit(1)
          ELSE /\ pc' = "alloc_y"
               /\ UNCHANGED <<errStream, heap, exitCode>>
    /\ Tick
    /\ UNCHANGED <<argc, thread_count, A, x, y, m, n, m_x, n_x, thread, handles,
                   opened, outFile, start_total, end_total, start_work, end_work>>
    /\ UNCHANGED <<workerVars, blockVars>>


\* lines 94-101
AllocY ==
    /\ Running /\ pc = "alloc_y"
    /\ \E mallocOk \in BOOLEAN :
          IF ~mallocOk
             THEN /\ errStream' = Append(errStream, Line("err_alloc_y", <<>>))
                  /\ heap' = heap \ {"A", "x"}
                  /\ Exit(1)
                  /\ UNCHANGED <<y, writers, stores>>
             ELSE /\ y' = [i \in 0 .. (m - 1) |-> Indeterminate]
                  /\ writers' = [i \in 0 .. (m - 1) |-> {}]
                  /\ stores' = [i \in 0 .. (m - 1) |-> 0]
                  /\ heap' = heap \cup {"y"}
                  /\ pc' = "alloc_handles"
                  /\ UNCHANGED <<errStream, exitCode>>
    /\ Tick
    /\ UNCHANGED <<argc, thread_count, A, x, m, n, m_x, n_x, thread, handles,
                   opened, outFile, start_total, end_total, start_work, end_work>>
    /\ UNCHANGED <<wpc, my_rank, wfirst, wlast, wi, wj>>
    /\ UNCHANGED blockVars

\* lines 103-111
AllocHandles ==
    /\ Running /\ pc = "alloc_handles"
    /\ \E mallocOk \in BOOLEAN :
          IF ~mallocOk
             THEN /\ errStream' = Append(errStream, Line("err_alloc_handles", <<>>))
                  /\ heap' = heap \ {"A", "x", "y"}
                  /\ Exit(1)
                  /\ UNCHANGED handles
             ELSE /\ handles' = [t \in 0 .. (thread_count - 1) |-> "uninit"]
                  /\ heap' = heap \cup {"thread_handles"}
                  /\ pc' = "start_work"
                  /\ UNCHANGED <<errStream, exitCode>>
    /\ Tick
    /\ UNCHANGED <<argc, thread_count, A, x, y, m, n, m_x, n_x, thread,
                   opened, outFile, start_total, end_total, start_work, end_work>>
    /\ UNCHANGED <<workerVars, blockVars>>

\* lines 113-117: GET_TIME(start_work); thread = 0
StartWork ==
    /\ Running /\ pc = "start_work"
    /\ start_work' = clock
    /\ thread' = 0
    /\ pc' = "create"
    /\ Tick
    /\ UNCHANGED <<exitCode, argc, thread_count, A, x, y, m, n, m_x, n_x, handles, heap,
                   opened, outFile, errStream, start_total, end_total, end_work>>
    /\ UNCHANGED <<workerVars, blockVars>>

\* Create handing every thread rank 0
CreateSameRank ==
    /\ Running /\ pc = "create" /\ thread < thread_count
    /\ \E created \in BOOLEAN :
          IF created
             THEN /\ handles' = [handles EXCEPT ![thread] = "valid"]
                  /\ wpc' = [wpc EXCEPT ![thread] = "start"]
                  /\ my_rank' = [my_rank EXCEPT ![thread] = 0]
             ELSE UNCHANGED <<handles, wpc, my_rank>>
    /\ thread' = thread + 1
    /\ Tick
    /\ UNCHANGED <<pc, exitCode, argc, thread_count, A, x, y, m, n, m_x, n_x, heap,
                   opened, outFile, errStream, start_total, end_total, start_work, end_work>>
    /\ UNCHANGED <<wfirst, wlast, wi, wj, writers, stores>>
    /\ UNCHANGED blockVars

\* lines 117-119, one iteration: pthread_create() either starts a thread
\* running Pth_mat_vect((void*)thread) and stores its id in the slot, or fails
\* (EAGAIN) and leaves the slot as malloc() gave it.  Its return value is not
\* looked at.
Create ==
    /\ Running /\ pc = "create" /\ thread < thread_count
    /\ \E created \in BOOLEAN :
          IF created
             THEN /\ handles' = [handles EXCEPT ![thread] = "valid"]
                  /\ wpc' = [wpc EXCEPT ![thread] = "start"]
                  /\ my_rank' = [my_rank EXCEPT ![thread] = thread]
             ELSE UNCHANGED <<handles, wpc, my_rank>>
    /\ thread' = thread + 1
    /\ Tick
    /\ UNCHANGED <<pc, exitCode, argc, thread_count, A, x, y, m, n, m_x, n_x, heap,
                   opened, outFile, errStream, start_total, end_total, start_work, end_work>>
    /\ UNCHANGED <<wfirst, wlast, wi, wj, writers, stores>>
    /\ UNCHANGED blockVars

\* lines 117 and 122: the create loop ends, thread = 0 for the join loop
CreateDone ==
    /\ Running /\ pc = "create" /\ ~(thread < thread_count)
    /\ thread' = 0
    /\ pc' = "join"
    /\ Tick
    /\ UNCHANGED <<exitCode, argc, thread_count, A, x, y, m, n, m_x, n_x, handles, heap,
                   opened, outFile, errStream, start_total, end_total, start_work, end_work>>
    /\ UNCHANGED <<workerVars, blockVars>>

\* Join returning from pthread_join() without waiting for the thread
JoinNoWait ==
    /\ Running /\ pc = "join" /\ thread < thread_count
    /\ \/ /\ handles[thread] = "valid"
          /\ handles' = [handles EXCEPT ![thread] = "joined"]
          /\ thread' = thread + 1
          /\ UNCHANGED <<pc, exitCode>>
       \/ /\ handles[thread] = "uninit"
          /\ thread' = thread + 1
          /\ UNCHANGED <<pc, exitCode, handles>>
       \/ /\ handles[thread] = "uninit"
          /\ Exit(139)
          /\ UNCHANGED <<thread, handles>>
    /\ Tick
    /\ UNCHANGED <<argc, thread_count, A, x, y, m, n, m_x, n_x, heap,
                   opened, outFile, errStream, start_total, end_total, start_work, end_work>>
    /\ UNCHANGED <<workerVars, blockVars>>

\* lines 122-124, one iteration.  pthread_join() on a valid id returns once
\* that thread has returned.  On a slot pthread_create() never filled the id
\* is indeterminate and the call is undefined: it returns an error at once,
\* or the process dies of SIGSEGV.
Join ==
    /\ Running /\ pc = "join" /\ thread < thread_count
    /\ \/ /\ handles[thread] = "valid"
          /\ wpc[thread] = "done"
          /\ handles' = [handles EXCEPT ![thread] = "joined"]
          /\ thread' = thread + 1
          /\ UNCHANGED <<pc, exitCode>>
       \/ /\ handles[thread] = "uninit"
          /\ thread' = thread + 1
          /\ UNCHANGED <<pc, exitCode, handles>>
       \/ /\ handles[thread] = "uninit"
          /\ Exit(139)
          /\ UNCHANGED <<thread, handles>>
    /\ Tick
    /\ UNCHANGED <<argc, thread_count, A, x, y, m, n, m_x, n_x, heap,
                   opened, outFile, errStream, start_total, end_total, start_work, end_work>>
    /\ UNCHANGED <<workerVars, blockVars>>

\* lines 122 and 126-127: the join loop ends; GET_TIME(end_work)
JoinDone ==
    /\ Running /\ pc = "join" /\ ~(thread < thread_count)
    /\ end_work' = clock
    /\ pc' = "write"
    /\ Tick
    /\ UNCHANGED <<exitCode, argc, thread_count, A, x, y, m, n, m_x, n_x, thread, handles,
                   heap, opened, outFile, errStream, start_total, end_total, start_work>>
    /\ UNCHANGED <<workerVars, blockVars>>

\* WriteResult going on to the timing line whatever Write_vector returned
WriteResultUnchecked ==
    /\ Running /\ pc = "write"
    /\ \E outcome \in WriteOutcomes, d \in ReadsOf(y) :
          LET r == Write_vector(outcome, d, m) IN
          /\ opened' = opened \cup {"file_y"}
          /\ outFile' = r.file
          /\ pc' = "timing"
          /\ UNCHANGED <<errStream, heap, exitCode>>
    /\ Tick
    /\ UNCHANGED <<argc, thread_count, A, x, y, m, n, m_x, n_x, thread, handles,
                   start_total, end_total, start_work, end_work>>
    /\ UNCHANGED <<workerVars, blockVars>>

\* lines 129-137
WriteResult ==
    /\ Running /\ pc = "write"
    /\ \E outcome \in WriteOutcomes, d \in ReadsOf(y) :
          LET r == Write_vector(outcome, d, m) IN
          /\ opened' = opened \cup {"file_y"}
          /\ outFile' = r.file
          /\ IF r.ret # 0
                THEN /\ errStream' = Append(errStream, Line("err_write", <<>>))
                     /\ heap' = heap \ {"A", "x", "y", "thread_handles"}
                     /\ Exit(1)
                ELSE /\ pc' = "timing"
                     /\ UNCHANGED <<errStream, heap, exitCode>>
    /\ Tick
    /\ UNCHANGED <<argc, thread_count, A, x, y, m, n, m_x, n_x, thread, handles,
                   start_total, end_total, start_work, end_work>>
    /\ UNCHANGED <<workerVars, blockVars>>

\* lines 139-151
Finish ==
    /\ Running /\ pc = "timing"
    /\ end_total' = clock
    /\ errStream' = Append(errStream,
                           Line("timing", <<m, thread_count, end_total' - start_total,
                                            end_work - start_work>>))
    /\ heap' = heap \ {"A", "x", "y", "thread_handles"}
    /\ Exit(0)
    /\ Tick
    /\ UNCHANGED <<argc, thread_count, A, x, y, m, n, m_x, n_x, thread, handles,
                   opened, outFile, start_total, start_work, end_work>>
    /\ UNCHANGED <<workerVars, blockVars>>

(***************************************************************************)
(* Pth_mat_vect(), one thread per filled slot t of thread_handles.         *)
(***************************************************************************)
Store(t, i) ==
    /\ writers' = [writers EXCEPT ![i] = @ \cup {t}]
    /\ stores' = [stores EXCEPT ![i] = @ + 1]

WorkerFrame ==
    /\ Tick
    /\ UNCHANGED <<pc, exitCode, argc, thread_count, A, x, m, n, m_x, n_x, thread, handles,
                   heap, opened, outFile, errStream,
                   start_total, end_total, start_work, end_work>>
    /\ UNCHANGED <<my_rank, blockVars>>

\* WStart in which a thread with an empty range waits for rows instead of returning
WStartEmptyWaits(t) ==
    /\ Running /\ wpc[t] = "start"
    /\ BLOCK_LOW(my_rank[t], thread_count, m) <= BLOCK_HIGH(my_rank[t], thread_count, m)
    /\ wfirst' = [wfirst EXCEPT ![t] = BLOCK_LOW(my_rank[t], thread_count, m)]
    /\ wlast' = [wlast EXCEPT ![t] = BLOCK_HIGH(my_rank[t], thread_count, m)]
    /\ wi' = [wi EXCEPT ![t] = wfirst'[t]]
    /\ wpc' = [wpc EXCEPT ![t] = "row"]
    /\ WorkerFrame
    /\ UNCHANGED <<y, wj, writers, stores>>

\* lines 239-248: the two macros, i = local_first_row and the first test of
\* i <= local_last_row; a thread with an empty range returns at once (255)
WStart(t) ==
    /\ Running /\ wpc[t] = "start"
    /\ wfirst' = [wfirst EXCEPT ![t] = BLOCK_LOW(my_rank[t], thread_count, m)]
    /\ wlast' = [wlast EXCEPT ![t] = BLOCK_HIGH(my_rank[t], thread_count, m)]
    /\ wi' = [wi EXCEPT ![t] = wfirst'[t]]
    /\ wpc' = [wpc EXCEPT ![t] = IF wi'[t] <= wlast'[t] THEN "row" ELSE "done"]
    /\ WorkerFrame
    /\ UNCHANGED <<y, wj, writers, stores>>

\* i++ and the test of i <= local_last_row (248); return NULL (255)
NextRow(t) ==
    /\ wi' = [wi EXCEPT ![t] = @ + 1]
    /\ wpc' = [wpc EXCEPT ![t] = IF wi'[t] <= wlast[t] THEN "row" ELSE "done"]

\* WRow without the store y[i] = 0.0
WRowNoZero(t) ==
    /\ Running /\ wpc[t] = "row"
    /\ wj' = [wj EXCEPT ![t] = 0]
    /\ IF 0 < n
          THEN /\ wpc' = [wpc EXCEPT ![t] = "inner"]
               /\ UNCHANGED wi
          ELSE NextRow(t)
    /\ WorkerFrame
    /\ UNCHANGED <<y, writers, stores, wfirst, wlast>>

\* lines 249-250: y[i] = 0.0; j = 0 and the first test of j < n
WRow(t) ==
    /\ Running /\ wpc[t] = "row"
    /\ y' = [y EXCEPT ![wi[t]] = 0]
    /\ Store(t, wi[t])
    /\ wj' = [wj EXCEPT ![t] = 0]
    /\ IF 0 < n
          THEN /\ wpc' = [wpc EXCEPT ![t] = "inner"]
               /\ UNCHANGED wi
          ELSE NextRow(t)
    /\ WorkerFrame
    /\ UNCHANGED <<wfirst, wlast>>

\* WInner accumulating into x[j] instead of y[i]
WInnerIntoX(t) ==
    /\ Running /\ wpc[t] = "inner"
    /\ x' = [x EXCEPT ![wj[t]] = FAdd(y[wi[t]], FMul(A[wi[t] * n + wj[t]], @))]
    /\ wj' = [wj EXCEPT ![t] = @ + 1]
    /\ IF wj'[t] < n
          THEN UNCHANGED <<wpc, wi>>
          ELSE NextRow(t)
    /\ Tick
    /\ UNCHANGED <<pc, exitCode, argc, thread_count, A, y, m, n, m_x, n_x, thread, handles,
                   heap, opened, outFile, errStream,
                   start_total, end_total, start_work, end_work>>
    /\ UNCHANGED <<my_rank, blockVars, wfirst, wlast, writers, stores>>

\* lines 250-251: y[i] += A[i * n + j] * x[j]; j++ and the test of j < n
WInner(t) ==
    /\ Running /\ wpc[t] = "inner"
    /\ y' = [y EXCEPT ![wi[t]] = FAdd(@, FMul(A[wi[t] * n + wj[t]], x[wj[t]]))]
    /\ Store(t, wi[t])
    /\ wj' = [wj EXCEPT ![t] = @ + 1]
    /\ IF wj'[t] < n
          THEN UNCHANGED <<wpc, wi>>
          ELSE NextRow(t)
    /\ WorkerFrame
    /\ UNCHANGED <<wfirst, wlast>>

Worker(t) == WStart(t) \/ WRow(t) \/ WInner(t)

MainStep ==
    \/ CheckArgc \/ GetThreadCount \/ ReadA \/ ReadX \/ CheckColumn \/ CheckCompat
    \/ AllocY \/ AllocHandles \/ StartWork \/ Create \/ CreateDone
    \/ Join \/ JoinDone \/ WriteResult \/ Finish

Next == MainStep \/ (\E t \in Ranks : Worker(t))

Spec == Init /\ [][Next]_vars

\* The scheduler does not stop the process while one of its threads can take
\* a step.  Weak fairness of main and of every worker,
\*     WF_vars(MainStep) /\ \A t \in Ranks : WF_vars(Worker(t)),
\* implies WF_vars(Next): a behaviour that stutters for ever in a state where
\* Next is enabled leaves one of those actions enabled for ever.  What holds
\* of every behaviour of FairSpec therefore holds under per-thread fairness.
FairSpec == Spec /\ WF_vars(Next)


(***************************************************************************)
(* matrix_vector.c: the serial product.                                    *)
(***************************************************************************)
\* y[i] of Mat_vect_mult after j turns of its inner loop
RECURSIVE SerialRow(_, _, _, _, _)
SerialRow(A0, x0, n0, i, j) ==
    IF j = 0 THEN 0
    ELSE FAdd(SerialRow(A0, x0, n0, i, j - 1), FMul(A0[i * n0 + (j - 1)], x0[j - 1]))

Mat_vect_mult(A0, x0, m0, n0) == [i \in 0 .. (m0 - 1) |-> SerialRow(A0, x0, n0, i, n0)]

(***************************************************************************)
(* BlockSpec: the macros of quinn.h evaluated for id = 0 .. p-1, as the    *)
(* p threads of Pth_mat_vect evaluate them, for bounded p >= 1 and n >= 0. *)
(***************************************************************************)
BlockInit ==
    /\ MainInit /\ argc = 5
    /\ WorkerInit
    /\ qp \in 1 .. MaxQP
    /\ qn \in 0 .. MaxQN
    /\ qid = 0
    /\ qlow = <<>> /\ qhigh = <<>> /\ qsize = <<>>
    /\ qj = 0 /\ qowner = <<>>

\* lines 244-245 of pth_matrix_vector.c for my_rank = qid
QEval ==
    /\ qid < qp
    /\ qlow' = [k \in 0 .. qid |-> IF k = qid THEN BLOCK_LOW(qid, qp, qn) ELSE qlow[k]]
    /\ qhigh' = [k \in 0 .. qid |-> IF k = qid THEN BLOCK_HIGH(qid, qp, qn) ELSE qhigh[k]]
    /\ qsize' = [k \in 0 .. qid |-> IF k = qid THEN BLOCK_SIZE(qid, qp, qn) ELSE qsize[k]]
    /\ qid' = qid + 1
    /\ UNCHANGED <<qp, qn, qj, qowner, mainVars, workerVars>>

\* BLOCK_OWNER(j, p, n) for j = qj, once every range is known
QOwner ==
    /\ qid = qp /\ qj < qn
    /\ qowner' = [k \in 0 .. qj |-> IF k = qj THEN BLOCK_OWNER(qj, qp, qn) ELSE qowner[k]]
    /\ qj' = qj + 1
    /\ UNCHANGED <<qp, qn, qid, qlow, qhigh, qsize, mainVars, workerVars>>

BlockNext == QEval \/ QOwner

BlockSpec == BlockInit /\ [][BlockNext]_vars


(***************************************************************************)
(* Properties.                                                             *)
(***************************************************************************)
QRange(id) == {r \in -1 .. (qn + 1) : qlow[id] <= r /\ r <= qhigh[id]}

\* C1: for n >= 0 and p >= 1 the inclusive ranges [BLOCK_LOW, BLOCK_HIGH] of
\* id = 0 .. p-1 partition [0, n): BLOCK_LOW(0) = 0, each range starts right
\* after the one before it, BLOCK_HIGH(p-1) = n-1, no two ranges share a row,
\* and every row of [0, n) lies in exactly one range.
C1_RangesPartitionRows ==
    /\ qid > 0 => qlow[0] = 0
    /\ \A id \in DOMAIN qlow : id > 0 => qlow[id] = qhigh[id - 1] + 1
    /\ \A a, b \in DOMAIN qlow : a # b => QRange(a) \cap QRange(b) = {}
    /\ qid = qp =>
          /\ qhigh[qp - 1] = qn - 1
          /\ \A r \in 0 .. (qn - 1) :
                Cardinality({id \in DOMAIN qlow : r \in QRange(id)}) = 1
          /\ \A id \in DOMAIN qlow : QRange(id) \subseteq 0 .. (qn - 1)

\* all ranges evaluated, for an n that p does not divide, with p > 1
C1_Witness == qid = qp /\ qp > 1 /\ qn > qp /\ qn % qp # 0


\* the join loop of main has returned
JoinReturned == pc \in {"write", "timing"} \/ (pc = "exit" /\ end_work # NoTime)

\* a pthread_create() of the create loop has failed
CreateFailed ==
    \E t \in DOMAIN handles :
        /\ handles[t] = "uninit"
        /\ \/ pc = "create" /\ t < thread
           \/ pc \in {"join", "write", "timing", "exit"}

TimingLines == {k \in DOMAIN errStream : errStream[k].tag = "timing"}

NoWorkerCreated == \A t \in Ranks : wpc[t] = "none"

\* the sum over j = 0 .. k-1 of A[i*n+j] * x[j], taken in increasing j
RECURSIVE ColumnSum(_, _)
ColumnSum(i, k) ==
    IF k = 0 THEN 0 ELSE FAdd(ColumnSum(i, k - 1), FMul(A[i * n + (k - 1)], x[k - 1]))

\* C2: once main's join loop has returned, y[i] is the sum over j = 0 .. n-1,
\* in increasing j, of A[i*n+j] * x[j], for every i in [0, m).
C2_ProductAfterJoin ==
    JoinReturned => \A i \in 0 .. (m - 1) : y[i] = ColumnSum(i, n)

\* C3: no two distinct workers ever store to the same index of y: each index
\* has at most one storing thread, the thread created with rank r stores only
\* to indices in [BLOCK_LOW(r,p,m), BLOCK_HIGH(r,p,m)], and two threads inside
\* their row loops are never at the same index; main reads y for Write_vector
\* only when no thread is still running.
C3_DisjointWrites ==
    /\ \A i \in DOMAIN writers :
          /\ Cardinality(writers[i]) <= 1
          /\ \A t \in writers[i] :
                /\ BLOCK_LOW(t, thread_count, m) <= i
                /\ i <= BLOCK_HIGH(t, thread_count, m)
    /\ \A t1, t2 \in Ranks :
          (t1 # t2 /\ wpc[t1] \in {"row", "inner"} /\ wpc[t2] \in {"row", "inner"})
             => wi[t1] # wi[t2]
    /\ pc = "write" => \A t \in Ranks : wpc[t] \in {"none", "done"}

\* two threads are inside their row loops at once, each having stored
C3_Witness ==
    \E t1, t2 \in Ranks :
        /\ t1 # t2
        /\ wpc[t1] = "inner" /\ wpc[t2] = "inner"
        /\ t1 \in writers[wi[t1]] /\ t2 \in writers[wi[t2]]

\* C4: after the join y is the vector the serial Mat_vect_mult computes from
\* the same A and x, for every worker count and every schedule.
C4_SameAsSerial ==
    JoinReturned => y = Mat_vect_mult(A, x, m, n)

\* C5: if a pthread_create() fails the run fails as a whole: no result file
\* is completed, the timing line is not emitted and the exit status is not 0.
C5_CreateFailureIsFatal ==
    CreateFailed =>
        /\ outFile.state # "complete"
        /\ TimingLines = {}
        /\ pc = "exit" => exitCode # 0

\* C6: Write_vector starts only when each of the p workers has returned and
\* every y[i] holds its final value.
C6_WriteAfterAllWorkers ==
    pc = "write" =>
        /\ \A t \in 0 .. (thread_count - 1) : wpc[t] = "done"
        /\ \A i \in 0 .. (m - 1) : y[i] = ColumnSum(i, n)

\* x has been read and is no column vector, or does not match A
DimensionMismatch == m_x > 0 /\ (n_x # 1 \/ n # m_x)

\* C7: if n_x # 1 or n # m_x the run goes no further than the two checks: it
\* exits non-zero with no thread created, y not allocated, the output file not
\* opened and no timing line.
C7_MismatchAborts ==
    DimensionMismatch =>
        /\ pc \in {"check_column", "check_compat", "exit"}
        /\ pc = "exit" => exitCode # 0
        /\ NoWorkerCreated /\ handles = <<>>
        /\ y = <<>> /\ "y" \notin heap
        /\ outFile = NoFile /\ "file_y" \notin opened
        /\ TimingLines = {}

\* x is a column vector of the wrong length and the run has ended
C7_Witness ==
    /\ pc = "exit" /\ exitCode = 1
    /\ m_x > 0 /\ n_x = 1 /\ n # m_x

\* the argument check has been made and has failed
UsageError ==
    \/ argc # 5 /\ pc # "start"
    \/ argc = 5 /\ pc \notin {"start", "get_threads"} /\ thread_count <= 0

\* C8: if argc # 5 or the parsed worker count is <= 0 the process exits
\* non-zero at once: no file opened, no buffer allocated, no thread created,
\* no output file and no timing line.
C8_UsageErrorExits ==
    UsageError =>
        /\ pc = "exit" /\ exitCode # NoExit /\ exitCode # 0
        /\ opened = {}
        /\ heap = {} /\ A = <<>> /\ x = <<>> /\ y = <<>> /\ handles = <<>>
        /\ NoWorkerCreated
        /\ outFile = NoFile
        /\ TimingLines = {}

\* the worker count 0 has been refused
C8_Witness == pc = "exit" /\ argc = 5 /\ thread_count = 0 /\ exitCode = 1

\* C9: the timing line m,p,overall,work is emitted at most once; a run that
\* exits 0 has emitted it exactly once; when it is emitted end_work has been
\* taken and Write_vector has returned success; a run that exits non-zero
\* never emits it.
C9_TimingRecord ==
    /\ Cardinality(TimingLines) <= 1
    /\ (pc = "exit" /\ exitCode = 0) => Cardinality(TimingLines) = 1
    /\ \A k \in TimingLines :
          /\ end_work # NoTime /\ start_work # NoTime /\ start_work <= end_work
          /\ outFile.state = "complete"
          /\ exitCode = 0
          /\ k = Len(errStream)
          /\ errStream[k].args = <<m, thread_count, end_total - start_total,
                                   end_work - start_work>>
    /\ (exitCode # NoExit /\ exitCode # 0) => TimingLines = {}

\* a run has exited 0 with its timing line
C9_Witness == pc = "exit" /\ exitCode = 0 /\ Cardinality(TimingLines) = 1

EmptyRanks == {r \in 0 .. (thread_count - 1) :
                  BLOCK_HIGH(r, thread_count, m) < BLOCK_LOW(r, thread_count, m)}

OneRowRanks == {r \in 0 .. (thread_count - 1) : BLOCK_SIZE(r, thread_count, m) = 1}

\* C10: when p > m >= 1, exactly p - m workers have an empty range and store
\* nothing to y, exactly m workers own one row each, and after the join y is
\* the product.
C10_MoreWorkersThanRows ==
    (JoinReturned /\ thread_count > m) =>
        /\ Cardinality(EmptyRanks) = thread_count - m
        /\ \A r \in EmptyRanks : \A i \in DOMAIN writers : r \notin writers[i]
        /\ Cardinality(OneRowRanks) = m
        /\ \A i \in 0 .. (m - 1) : y[i] = ColumnSum(i, n) /\ writers[i] \subseteq OneRowRanks


\* The products of C2, C4, C6 and C10 are missed only through a failed
\* pthread_create(): in the runs where every creation succeeds they hold.
ProductWhenAllCreated ==
    ~CreateFailed =>
        /\ C2_ProductAfterJoin
        /\ C4_SameAsSerial
        /\ C6_WriteAfterAllWorkers
        /\ C10_MoreWorkersThanRows


\* C11: when p > m >= 1, every row of [0, m) lies in the range of a worker
\* with id < m, and the workers with empty ranges are those with id >= m.
C11_FirstWorkersCoverRows ==
    (qid = qp /\ qp > qn /\ qn >= 1) =>
        /\ \A r \in 0 .. (qn - 1) : \E id \in 0 .. (qn - 1) : r \in QRange(id)
        /\ \A id \in DOMAIN qlow : QRange(id) = {} <=> id >= qn

QNonEmpty == {id \in DOMAIN qlow : QRange(id) # {}}

\* C11 as amended: when p > m >= 1, the m workers with a non-empty range own
\* one row each and cover [0, m) between them, and the other p - m workers
\* are empty; the owner of row r is a worker with id >= r, the last worker
\* p-1 owning row m-1, so the non-empty workers need not be 0 .. m-1.
C11_NonEmptyWorkersCoverRows ==
    (qid = qp /\ qp > qn /\ qn >= 1) =>
        /\ Cardinality(QNonEmpty) = qn
        /\ Cardinality(DOMAIN qlow \ QNonEmpty) = qp - qn
        /\ \A r \in 0 .. (qn - 1) :
              \E id \in QNonEmpty : QRange(id) = {r} /\ id >= r
        /\ QRange(qp - 1) = {qn - 1}

\* m = 2, p = 5 with every range evaluated: workers 2 and 4 own the rows
C11_Witness ==
    /\ qid = qp /\ qp = 5 /\ qn = 2
    /\ QNonEmpty = {2, 4}


RECURSIVE SumUpTo(_, _)
SumUpTo(f, k) == IF k < 0 THEN 0 ELSE f[k] + SumUpTo(f, k - 1)

FloorShare == qn \div qp
CeilShare == (qn + qp - 1) \div qp

\* C12: for n >= 0, p >= 1 and id in [0, p), BLOCK_SIZE(id,p,n) is
\* BLOCK_HIGH - BLOCK_LOW + 1 and is floor(n/p) or ceil(n/p); the sizes of two
\* workers differ by at most 1 and the p sizes sum to n.
C12_BalancedSizes ==
    /\ \A id \in DOMAIN qsize :
          /\ qsize[id] = qhigh[id] - qlow[id] + 1
          /\ qsize[id] \in {FloorShare, CeilShare}
    /\ \A a, b \in DOMAIN qsize : qsize[a] - qsize[b] <= 1
    /\ qid = qp => SumUpTo(qsize, qp - 1) = qn

\* every size evaluated for an n that p does not divide: both sizes occur
C12_Witness ==
    /\ qid = qp /\ qn % qp # 0 /\ qn > qp
    /\ \E a, b \in DOMAIN qsize : qsize[a] = FloorShare /\ qsize[b] = CeilShare

\* C13: for n >= 1, p >= 1 and j in [0, n), BLOCK_OWNER(j,p,n) is a worker of
\* [0, p) and its block contains j.
C13_OwnerHoldsIndex ==
    \A j \in DOMAIN qowner :
        /\ qowner[j] \in 0 .. (qp - 1)
        /\ qlow[qowner[j]] <= j /\ j <= qhigh[qowner[j]]

\* every owner evaluated, with p > 1 workers and an n that p does not divide
C13_Witness == qj = qn /\ qn > qp /\ qp > 1 /\ qn % qp # 0 /\ qowner[qn - 1] = qp - 1


\* the thread created for rank r owns row i
Owns(r, i) == BLOCK_LOW(r, thread_count, m) <= i /\ i <= BLOCK_HIGH(r, thread_count, m)

\* C14: over a whole run each y[i] is stored to at most once, by the worker
\* owning row i.
C14_WrittenOnce ==
    \A i \in DOMAIN stores :
        /\ stores[i] <= 1
        /\ \A t \in writers[i] : Owns(t, i)

\* C14 as amended: each y[i] is stored to by at most one worker, the one
\* owning row i; that worker stores to it n + 1 times, once to zero it and
\* once per column, so the count never exceeds n + 1 and is n + 1 once the
\* owner has gone past row i.
C14_OneWriterPerElement ==
    \A i \in DOMAIN stores :
        /\ Cardinality(writers[i]) <= 1
        /\ \A t \in writers[i] : Owns(t, i)
        /\ stores[i] <= n + 1
        /\ stores[i] > 0 <=> writers[i] # {}
        /\ \A t \in Ranks :
              (wpc[t] \in {"row", "inner", "done"} /\ Owns(my_rank[t], i)
                 /\ (wpc[t] = "done" \/ wi[t] > i))
                 => stores[i] = n + 1 /\ writers[i] = {t}

\* a run of more than one column has been joined with an element fully stored
C14_Witness ==
    /\ JoinReturned /\ n > 1
    /\ \E i \in DOMAIN stores : stores[i] = n + 1


LastTag == IF errStream = <<>> THEN "none" ELSE errStream[Len(errStream)].tag

\* the run has ended on a failed read of A or x or a failed write of y
IOFailureExit == pc = "exit" /\ LastTag \in {"err_read_A", "err_read_x", "err_write"}

\* C15: on every I/O failure exit (A unreadable, x unreadable or truncated,
\* output unwritable) every buffer allocated up to then (A, x, y,
\* thread_handles, Read_matrix's own buffer) has been freed: no allocation is
\* live at exit.
C15_NothingLiveAtIOFailure == IOFailureExit => heap = {}

\* A was read and x's data ended early: the run has ended with A freed
C15_Witness ==
    /\ IOFailureExit /\ LastTag = "err_read_x"
    /\ A # <<>> /\ "file_x" \in opened /\ heap = {}


\* the run has ended on a failure main detected
FailedRun == pc = "exit" /\ exitCode = 1

\* C16: every failing run (usage error, non-positive worker count, read
\* failure, non-column x, dimension mismatch, allocation failure, write
\* failure) writes exactly one diagnostic line to the error stream before
\* exiting non-zero.
C16_OneDiagnosticLine == FailedRun => Len(errStream) = 1

\* the lines of the diagnostic each failure writes
DiagnosticTags ==
    {<<"usage", "usage_purpose", "usage_output", "usage_example">>,
     <<"err_threads">>, <<"err_read_A">>, <<"err_read_x">>, <<"err_column">>,
     <<"err_incompatible", "err_dims">>,
     <<"err_alloc_y">>, <<"err_alloc_handles">>, <<"err_write">>}

\* C16 as amended: every failing run that main detects writes exactly one
\* diagnostic to the error stream before exiting non-zero, and nothing else;
\* the diagnostic is one line, except for a wrong argument count (the four
\* lines of Usage) and for n # m_x (two lines, the second naming the
\* dimensions m, n, m_x).
C16_OneDiagnostic ==
    FailedRun =>
        /\ [k \in DOMAIN errStream |-> errStream[k].tag] \in DiagnosticTags
        /\ Len(errStream) = (IF argc # 5 THEN 4
                             ELSE IF LastTag = "err_dims" THEN 2
                             ELSE 1)
        /\ LastTag = "err_dims" => errStream[2].args = <<m, n, m_x>>

\* a run has ended on a wrong argument count with the four lines of Usage
C16_Witness == FailedRun /\ argc # 5 /\ Len(errStream) = 4


\* C17: in a run that reaches the parallel region exactly p = thread_count
\* threads are created, with the ranks 0 .. p-1 each used once; no thread is
\* joined before the create loop has ended, none is created after it, and once
\* the join loop has returned each of the p threads has been joined.
C17_FixedPool ==
    /\ \A t \in Ranks : t >= thread_count => wpc[t] = "none"
    /\ pc = "create" => \A t \in DOMAIN handles : handles[t] # "joined"
    /\ (pc = "join" \/ JoinReturned) =>
          \A t \in 0 .. (thread_count - 1) :
              /\ wpc[t] # "none" /\ my_rank[t] = t
              /\ handles[t] \in {"valid", "joined"}
    /\ JoinReturned => \A t \in 0 .. (thread_count - 1) : handles[t] = "joined"

\* Without a failed pthread_create() C17 holds.
PoolWhenAllCreated == ~CreateFailed => C17_FixedPool


\* a thread of Pth_mat_vect takes a step
WorkerStep ==
    \E t \in Ranks :
        /\ wpc[t] \in {"start", "row", "inner"}
        /\ wpc'[t] # wpc[t] \/ wi'[t] # wi[t] \/ wj'[t] # wj[t]

\* a file is opened, read or written
FileStep == opened' # opened \/ outFile' # outFile

\* the four timers, as far as taken, in the order of the code
TimersInOrder ==
    /\ start_work # NoTime =>
          /\ start_total # NoTime /\ start_total < start_work
          /\ {"file_A", "file_x"} \subseteq opened /\ A # <<>> /\ x # <<>>
          /\ n_x = 1 /\ n = m_x
    /\ start_work = NoTime => NoWorkerCreated /\ end_work = NoTime
    /\ end_work # NoTime =>
          /\ start_work < end_work
          /\ \A t \in Ranks : wpc[t] \in {"none", "done"}
    /\ end_work = NoTime => outFile = NoFile /\ "file_y" \notin opened /\ end_total = NoTime
    /\ end_total # NoTime => end_work < end_total /\ outFile.state = "complete"

\* C18: start_work is taken after both inputs are loaded and validated and
\* before the first thread is created, end_work after the last join and before
\* Write_vector; every step of a worker lies between the two, no file is
\* opened, read or written between them, and start_total < start_work <
\* end_work < end_total.
C18_ComputeInterval ==
    /\ []TimersInOrder
    /\ [][WorkerStep => (start_work # NoTime /\ start_work <= clock /\ end_work = NoTime
                           /\ end_work' = NoTime)]_vars
    /\ [][FileStep => (start_work = NoTime \/ end_work # NoTime)]_vars

\* a run with two running threads has taken all four timers
C18_Witness ==
    /\ end_total # NoTime
    /\ \E t1, t2 \in DOMAIN handles : t1 # t2 /\ handles[t1] = "joined" /\ handles[t2] = "joined"
    /\ \E i \in DOMAIN stores : stores[i] > 0


\* C19: every access of a worker's loops is in bounds: the y index i is in
\* [0, m), the A offset i*n+j in [0, m*n), the x index j in [0, n); the range
\* of a started thread lies in [0, m), BLOCK_HIGH(p-1,p,m) = m-1, and a thread
\* with an empty range makes no access.
C19_AccessesInBounds ==
    /\ \A t \in Ranks :
          /\ wpc[t] \in {"row", "inner"} =>
                wi[t] \in DOMAIN y /\ 0 <= wi[t] /\ wi[t] < m
          /\ wpc[t] = "inner" =>
                /\ wj[t] \in DOMAIN x /\ 0 <= wj[t] /\ wj[t] < n
                /\ (wi[t] * n + wj[t]) \in DOMAIN A
                /\ 0 <= wi[t] * n + wj[t] /\ wi[t] * n + wj[t] < m * n
          /\ wpc[t] \in {"row", "inner", "done"} =>
                /\ 0 <= wfirst[t] /\ wlast[t] <= m - 1
                /\ wfirst[t] > wlast[t] =>
                      wpc[t] = "done" /\ \A i \in DOMAIN writers : t \notin writers[i]
    /\ (pc \in {"create", "join"}) => BLOCK_HIGH(thread_count - 1, thread_count, m) = m - 1

\* the last of several threads is at the last element of A
C19_Witness ==
    \E t \in Ranks :
        /\ t > 0 /\ t = thread_count - 1 /\ wpc[t] = "inner"
        /\ wi[t] = m - 1 /\ wj[t] = n - 1 /\ n > 1

\* the parallel region: from the create loop to the end of the join loop
InParallelRegion == pc \in {"create", "join"}

\* C20: from the creation of the first worker to the return of the last join
\* no step of main or of a worker changes A, x, m, n or thread_count; of the
\* shared buffers a worker's step changes y alone.
C20_InputsReadOnly ==
    /\ [][InParallelRegion =>
             (A' = A /\ x' = x /\ m' = m /\ n' = n /\ thread_count' = thread_count)]_vars
    /\ [][WorkerStep =>
             (A' = A /\ x' = x /\ m' = m /\ n' = n /\ thread_count' = thread_count
                /\ DOMAIN y' = DOMAIN y)]_vars

\* main waits in the join loop while a thread that has stored to y still runs
C20_Witness ==
    /\ pc = "join"
    /\ \E t \in Ranks : wpc[t] = "inner" /\ wj[t] > 0 /\ y[wi[t]] # Indeterminate


\* a thread that was created and has not returned
InLoop(t) == wpc[t] \in {"start", "row", "inner"}

\* main is at pthread_join on a thread that has not returned
WaitingInJoin ==
    /\ pc = "join" /\ thread < thread_count
    /\ handles[thread] = "valid" /\ wpc[thread] # "done"

\* C21: under weak fairness of main and of every worker, a run that reaches
\* the create loop and creates every thread terminates: a worker inside its
\* loops can always take its next step (it waits for nothing) and reaches its
\* return, main can always take a step except while it waits in pthread_join,
\* the join loop ends, and the run reaches its exit, for every p >= 1.
C21_Terminates ==
    /\ [](\A t \in Ranks : (Running /\ InLoop(t)) => ENABLED Worker(t))
    /\ []((Running /\ ~WaitingInJoin) => ENABLED MainStep)
    /\ []((pc \in {"write", "timing"} /\ ~CreateFailed) =>
             \A t \in DOMAIN handles : handles[t] = "joined" /\ wpc[t] = "done")
    /\ <>(pc = "exit")

\* a run with more threads than rows has joined them all and returned 0
C21_Witness ==
    /\ pc = "exit" /\ exitCode = 0
    /\ thread_count > m /\ m > 0
    /\ \A t \in DOMAIN handles : handles[t] = "joined"
    /\ \E t \in DOMAIN handles : wfirst[t] > wlast[t]

====
